---- MODULE Spec2Model ----
(***************************************************************************)
(* Model of the RescueGroups portal image scraper.                         *)
(*                                                                         *)
(* Two copies of the script exist: src/images.py (class RescuePortal,      *)
(* variant "class") and src/bin/images.py (free functions, variant "bin"). *)
(* Strings are sequences of one-character strings, so that str.replace,    *)
(* re.sub and re.match are computed character by character.                *)
(***************************************************************************)
EXTENDS Integers, Sequences, FiniteSets, TLC

VARIABLES
    variant,     \* which copy of the script runs: "class" or "bin"
    cmdline,     \* what the user typed: [startPage, hold, year], each None or a string
    pc,          \* position of run()/main(), or of the pure-function harness
    failed,      \* the step whose exception escaped ("" while none has)
    i,           \* the page loop's index
    links,       \* the candidate links of the current page
    k,           \* download_links' position in links (1-based)
    url,         \* the page the browser shows
    src,         \* the image URL read by get_pic_url for the current link
    files,       \* pages/: the names of the files that exist
    emptyFiles,  \* pages/: the files opened for writing whose bytes never arrived
    collected,   \* history: filenames of every candidate collected so far
    fetched,     \* history: listing page indices fetched so far
    quits,       \* number of browser.quit() calls that completed
    ret,         \* run()'s return value (None until it returns)
    html,        \* sanitize / harness input: the current cell's text
    previous,    \* sanitize / harness input: the preceding cell
    clean,       \* sanitize's result
    tds,         \* process_table_data's input: the page's cells
    result       \* process_table_data's result

vars == <<variant, cmdline, pc, failed, i, links, k, url, src, files, emptyFiles,
          collected, fetched, quits, ret, html, previous, clean, tds, result>>

runVars == <<failed, i, links, k, url, src, files, emptyFiles, collected, fetched, quits, ret>>

\* Optional[T]: None is the empty sequence, a value x is <<x>>
None == <<>>

Some(x) == <<x>>

----------------------------------------------------------------------------
(* Characters and strings *)

NL == "\n"

Lower == {"a","b","c","d","e","f","g","h","i","j","k","l","m",
          "n","o","p","q","r","s","t","u","v","w","x","y","z"}

Upper == {"A","B","C","D","E","F","G","H","I","J","K","L","M",
          "N","O","P","Q","R","S","T","U","V","W","X","Y","Z"}

Digit == {"0","1","2","3","4","5","6","7","8","9"}

\* the character class [a-zA-Z0-9\-] whose complement re.sub deletes
FilenameChars == Lower \cup Upper \cup Digit \cup {"-"}

Adopted == <<"A","d","o","p","t","e","d">>

\* str.replace(old, ""): scan left to right, drop each non-overlapping
\* occurrence of old, copy every other character.
RECURSIVE str_replace(_, _)
str_replace(s, old) ==
    IF Len(s) < Len(old) THEN s
    ELSE IF SubSeq(s, 1, Len(old)) = old
         THEN str_replace(SubSeq(s, Len(old) + 1, Len(s)), old)
         ELSE <<Head(s)>> \o str_replace(Tail(s), old)

\* a plausible slip: the character class written [^a-zA-Z0-9\- ] / \s kept
re_sub_keeps_space(s) == SelectSeq(s, LAMBDA c : c \in FilenameChars \cup {" "})

\* re.sub(r"[^a-zA-Z0-9\-]", "", s)
re_sub(s) == SelectSeq(s, LAMBDA c : c \in FilenameChars)

\* Tag.get_text() of a cell: the text of the cell and of everything in it
get_text(td) == td.text

\* a plausible slip: "Adopted" removed before the newlines are
sanitize_adopted_first(h, prev) ==
    re_sub(get_text(prev) \o <<"-">> \o str_replace(str_replace(h, Adopted), <<NL>>))

sanitize(h, prev) ==
    LET clean1 == str_replace(str_replace(h, <<NL>>), Adopted)
        clean2 == get_text(prev) \o <<"-">> \o clean1
    IN  re_sub(clean2)

----------------------------------------------------------------------------
(* Command line and docopt's argument map *)

Hold == <<"H","o","l","d">>

Year24 == <<"-","2","4","-">>

Year21 == <<"-","2","1","-">>

\* Python values an argument map holds
PyNone == [t |-> "NoneType", s |-> <<>>, b |-> FALSE]

PyStr(s) == [t |-> "str", s |-> s, b |-> FALSE]

PyBool(b) == [t |-> "bool", s |-> <<>>, b |-> b]

\* docopt on the Options: section of src/images.py: "--hold=<hold_str>  ..."
\* declares an option taking an argument, its [default: ...] applying when the
\* flag is omitted; "--start-page= <N>" takes an argument and has no default,
\* so the key is present with the value None when the flag is omitted.
docopt_class(cl) ==
    [startPage |-> IF cl.startPage = None THEN PyNone ELSE PyStr(cl.startPage[1]),
     hold      |-> PyStr(IF cl.hold = None THEN Hold ELSE cl.hold[1]),
     year      |-> PyStr(IF cl.year = None THEN Year24 ELSE cl.year[1])]

\* docopt on the Options: section of src/bin/images.py: each option name is
\* followed by two or more spaces, which is docopt's separator between an
\* option and its description, so every option is declared without argument:
\* the key holds True or False (the flag was given or not) and the value
\* typed after the flag is the positional argument N / <hold_str> / <year_str>.
docopt_bin(cl) ==
    [startPage |-> PyBool(cl.startPage # None),
     hold      |-> PyBool(cl.hold # None),
     year      |-> PyBool(cl.year # None)]

docopt(v, cl) == IF v = "class" THEN docopt_class(cl) ELSE docopt_bin(cl)

RECURSIVE DecimalValue(_)
DecimalValue(s) ==
    IF s = <<>> THEN 0
    ELSE 10 * DecimalValue(SubSeq(s, 1, Len(s) - 1))
         + (CHOOSE d \in 0..9 : ToString(d) = s[Len(s)])

\* int(x): a str of decimal digits is parsed, a bool is 1 or 0, None raises
\* TypeError and any other text raises ValueError (ok = FALSE).
py_int(x) ==
    CASE x.t = "NoneType" -> [ok |-> FALSE, n |-> 0]
      [] x.t = "bool"     -> [ok |-> TRUE, n |-> IF x.b THEN 1 ELSE 0]
      [] x.t = "str"      ->
            IF x.s # <<>> /\ \A j \in 1..Len(x.s) : x.s[j] \in Digit
            THEN [ok |-> TRUE, n |-> DecimalValue(x.s)]
            ELSE [ok |-> FALSE, n |-> 0]

----------------------------------------------------------------------------
(* The row filter *)

\* a table cell: its text and the anchor elements inside it, in document order
Cell(text, anchors) == [text |-> text, anchors |-> anchors]

\* an anchor element: whether it has an href attribute, and the attribute's value
Anchor(hasHref, href) == [hasHref |-> hasHref, href |-> href]

\* Tag.find("a"): the first anchor inside the cell, or None
find_a(td) == IF td.anchors = <<>> THEN None ELSE Some(Head(td.anchors))

\* re.match(keyword, s) for a keyword free of regex metacharacters:
\* the keyword must stand at the very beginning of s
re_match(keyword, s) ==
    Len(keyword) <= Len(s) /\ SubSeq(s, 1, Len(keyword)) = keyword

\* re.match(".*" + token + ".*", s, re.DOTALL) for a metacharacter-free token:
\* "." also matches a line break, so the token may stand anywhere in s
re_match_anywhere(token, s) ==
    \E j \in 0..(Len(s) - Len(token)) : SubSeq(s, j + 1, j + Len(token)) = token

\* the two patterns the filter applies: the class reads them from the argument
\* map, the free-function copy has them written into the code
patterns(v, args) ==
    IF v = "class"
    THEN [hold |-> args.hold.s, year |-> args.year.s]
    ELSE [hold |-> Hold, year |-> Year21]

\* a plausible slip: the lookback slot is refreshed only when a row did not match
loop_body_slides_on_mismatch(pat, st, td) ==
    LET h     == get_text(td)
        match == re_match(pat.hold, h) /\ re_match_anywhere(pat.year, h)
        tag_a == IF st.previous = None THEN None ELSE find_a(st.previous[1])
        emit  == match /\ st.previous # None /\ tag_a # None /\ tag_a[1].hasHref
    IN  [previous |-> IF match THEN st.previous ELSE Some(td),
         links    |-> IF emit
                      THEN Append(st.links, [href |-> tag_a[1].href,
                                             filename |-> sanitize(h, st.previous[1])])
                      ELSE st.links]

\* one iteration of "for td in tds": st = [previous, links]
loop_body(pat, st, td) ==
    LET h     == get_text(td)
        match == re_match(pat.hold, h) /\ re_match_anywhere(pat.year, h)
        tag_a == IF st.previous = None THEN None ELSE find_a(st.previous[1])
        emit  == match /\ st.previous # None /\ tag_a # None /\ tag_a[1].hasHref
    IN  [previous |-> Some(td),
         links    |-> IF emit
                      THEN Append(st.links, [href |-> tag_a[1].href,
                                             filename |-> sanitize(h, st.previous[1])])
                      ELSE st.links]

RECURSIVE for_td_in_tds(_, _, _)
for_td_in_tds(pat, st, cells) ==
    IF cells = <<>> THEN st
    ELSE for_td_in_tds(pat, loop_body(pat, st, Head(cells)), Tail(cells))

process_table_data(v, args, cells) ==
    for_td_in_tds(patterns(v, args), [previous |-> None, links |-> <<>>], cells).links

----------------------------------------------------------------------------
(* Inputs *)

\* longest current-cell text given to sanitize, in fragments
MaxFrags == 3

\* longest previous-cell text given to sanitize, in fragments
MaxPrevFrags == 1

\* longest page given to process_table_data, in cells
MaxCells == 3

Fost == <<"F","o","s","t">>

Buddy123 == <<"B","u","d","d","y","1","2","3">>

HoldYear == <<"H","o","l","d","-","2","4","-">>

Frags == {HoldYear, <<NL>>, Adopted, <<"A","d","o">>, <<"p","t","e","d">>, <<" ">>, Buddy123}

RECURSIVE Concats(_)
Concats(n) ==
    IF n = 0 THEN {<<>>}
    ELSE LET P == Concats(n - 1) IN P \cup {p \o f : p \in P, f \in Frags}

RexLinked == Cell(<<"R","e","x">>, <<Anchor(TRUE, "animal?id=1")>>)

RexPlain == Cell(<<"R","e","x">>, <<>>)

MaxBareAnchorFirst == Cell(<<"M","a","x">>, <<Anchor(FALSE, ""), Anchor(TRUE, "animal?id=2")>>)

Hold24EmptyHref == Cell(HoldYear, <<Anchor(TRUE, "")>>)

Hold21NextLine == Cell(<<"H","o","l","d","\n","-","2","1","-","A","d","o","p","t","e","d">>, <<>>)

Fost24 == Cell(<<"F","o","s","t","-","2","4","-">>, <<>>)

LateHold == Cell(<<" ","H","o","l","d","-","2","4","-","-","2","1","-">>, <<>>)

Fost21Linked == Cell(<<"F","o","s","t","-","2","1","-">>, <<Anchor(TRUE, "animal?id=3")>>)

GridCells == {RexLinked, RexPlain, MaxBareAnchorFirst, Hold24EmptyHref,
              Hold21NextLine, Fost24, LateHold, Fost21Linked}

RECURSIVE SeqsUpTo(_, _)
SeqsUpTo(S, n) ==
    IF n = 0 THEN {<<>>}
    ELSE LET P == SeqsUpTo(S, n - 1) IN P \cup {Append(p, x) : p \in P, x \in S}

HoldFlags == {None, Some(Hold), Some(Fost)}

\* docopt reads a word that starts with "-" as options unless it is the value
\* of an option declared with an argument: src/images.py accepts
\* "--year-pattern -24-", src/bin/images.py (whose options take no argument)
\* only accepts a token that does not start with "-"
YearFlags(v) ==
    IF v = "class" THEN {None, Some(Year21), Some(Year24)}
    ELSE {None, Some(<<"2","1","-">>), Some(<<"2","4","-">>)}

NoFlags == [startPage |-> None, hold |-> None, year |-> None]

\* the variables of run() while only a pure function is exercised
RunIdle ==
    /\ failed = "" /\ i = 0 /\ links = <<>> /\ k = 0 /\ url = "" /\ src = ""
    /\ files = {} /\ emptyFiles = {} /\ collected = <<>> /\ fetched = <<>>
    /\ quits = 0 /\ ret = None

----------------------------------------------------------------------------
(* sanitize, applied to one pair of texts *)

\* sanitize is the same text in both copies
InitSan ==
    /\ variant = "class"
    /\ cmdline = NoFlags
    /\ pc = "sanitize"
    /\ html \in Concats(MaxFrags)
    /\ previous \in {Cell(t, <<>>) : t \in Concats(MaxPrevFrags)}
    /\ clean = <<>>
    /\ tds = <<>> /\ result = <<>>
    /\ RunIdle

Sanitize ==
    /\ pc = "sanitize"
    /\ clean' = sanitize(html, previous)
    /\ pc' = "sanitized"
    /\ UNCHANGED <<variant, cmdline, html, previous, tds, result, runVars>>

NextSan == Sanitize

SpecSan == InitSan /\ [][NextSan]_vars

----------------------------------------------------------------------------
(* process_table_data, applied to one page of cells *)

InitFilter ==
    /\ variant \in {"class", "bin"}
    /\ cmdline \in [startPage : {None}, hold : HoldFlags, year : YearFlags(variant)]
    /\ pc = "filter"
    /\ tds \in SeqsUpTo(GridCells, MaxCells)
    /\ result = <<>>
    /\ html = <<>> /\ previous = Cell(<<>>, <<>>) /\ clean = <<>>
    /\ RunIdle

ProcessTableData ==
    /\ pc = "filter"
    /\ result' = process_table_data(variant, docopt(variant, cmdline), tds)
    /\ pc' = "filtered"
    /\ UNCHANGED <<variant, cmdline, html, previous, clean, tds, runVars>>

NextFilter == ProcessTableData

SpecFilter == InitFilter /\ [][NextFilter]_vars

----------------------------------------------------------------------------
(* run() / main(): one action per call, each of which may raise *)

\* total number of candidate links the portal serves in one run
MaxCand == 2

EndPageClass == 45

EndPageBin == 120

end_page(v) == IF v = "class" THEN EndPageClass ELSE EndPageBin

StartFlags == {None, Some(<<"5">>), Some(<<"4","3">>), Some(<<"4","4">>), Some(<<"4","5">>),
               Some(<<"1","1","9">>), Some(<<"1","2","0">>), Some(<<"x">>)}

BothYears == Cell(<<"H","o","l","d","-","2","4","-","-","2","1","-">>, <<Anchor(TRUE, "animal?id=4")>>)

RexTwin == Cell(<<"R","e","x">>, <<Anchor(TRUE, "animal?id=5")>>)

\* the listings the portal may serve for a page index
PortalPages == {<<>>,
                <<RexLinked, BothYears>>,
                <<RexLinked, BothYears, BothYears>>,
                <<RexPlain, BothYears>>,
                <<RexTwin, BothYears>>}

ImageUrls == {"", "http://img/1.jpg"}

ListUrl(n) == "https://portal.rescuegroups.org/list?&listStart=" \o ToString(n)

AnimalUrl(href) == "https://portal.rescuegroups.org/" \o href

\* f"pages/{filename}.jpg"
FilePath(filename) == <<"p","a","g","e","s","/">> \o filename \o <<".","j","p","g">>

Init ==
    /\ variant \in {"class", "bin"}
    /\ cmdline \in [startPage : StartFlags, hold : {None}, year : {None}]
    /\ pc = "login"
    /\ failed = "" /\ i = 0 /\ links = <<>> /\ k = 0 /\ url = "" /\ src = ""
    /\ files = {} /\ emptyFiles = {} /\ collected = <<>> /\ fetched = <<>>
    /\ quits = 0 /\ ret = None
    /\ html = <<>> /\ previous = Cell(<<>>, <<>>) /\ clean = <<>>
    /\ tds = <<>> /\ result = <<>>

pureVars == <<html, previous, clean, result>>

\* a try/finally around the run would quit the browser on the way out
AbortWithFinally(step) ==
    /\ pc' = "crashed"
    /\ failed' = step
    /\ quits' = quits + 1
    /\ UNCHANGED <<variant, cmdline, i, links, k, url, src, files, emptyFiles,
                   collected, fetched, ret, tds, pureVars>>

\* an exception raised by the step escapes run(): nothing catches it, nothing
\* runs after it
Abort(step) ==
    /\ pc' = "crashed"
    /\ failed' = step
    /\ UNCHANGED <<variant, cmdline, i, links, k, url, src, files, emptyFiles,
                   collected, fetched, quits, ret, tds, pureVars>>

Login ==
    /\ pc = "login"
    /\ \/ /\ pc' = "run_search"
          /\ url' = "https://portal.rescuegroups.org/login#atbh"
          /\ UNCHANGED <<variant, cmdline, failed, i, links, k, src, files, emptyFiles,
                         collected, fetched, quits, ret, tds, pureVars>>
       \/ Abort("login")

RunSearch ==
    /\ pc = "run_search"
    /\ \/ /\ pc' = "start_page"
          /\ UNCHANGED <<variant, cmdline, failed, i, links, k, url, src, files, emptyFiles,
                         collected, fetched, quits, ret, tds, pureVars>>
       \/ Abort("run_search")

\* start_page = int(args.get("--start-page", 1)): docopt always puts the key
\* in the map, so the default 1 of .get is never used
StartPage ==
    /\ pc = "start_page"
    /\ LET n == py_int(docopt(variant, cmdline).startPage)
       IN  IF n.ok
           THEN /\ i' = n.n
                /\ pc' = "list_page"
                /\ UNCHANGED <<variant, cmdline, failed, links, k, url, src, files,
                               emptyFiles, collected, fetched, quits, ret, tds, pureVars>>
           ELSE Abort("start_page")

\* the loop test succeeded: list_page(i), page_source, find_all("td"),
\* process_table_data; an empty list of links ends download_links at once
ListPage ==
    /\ pc = "list_page"
    /\ i < end_page(variant)
    /\ \/ \E cells \in PortalPages :
            LET found == process_table_data(variant, docopt(variant, cmdline), cells)
            IN  /\ Len(collected) + Len(found) <= MaxCand
                /\ url' = ListUrl(i)
                /\ fetched' = Append(fetched, i)
                /\ tds' = cells
                /\ links' = found
                /\ collected' = collected \o found
                /\ IF found = <<>>
                   THEN /\ i' = i + 1 /\ k' = 0 /\ pc' = "list_page"
                   ELSE /\ i' = i /\ k' = 1 /\ pc' = "show_animal"
                /\ UNCHANGED <<variant, cmdline, failed, src, files, emptyFiles,
                               quits, ret, pureVars>>
       \/ Abort("list_page")

ShowAnimal ==
    /\ pc = "show_animal"
    /\ \/ /\ url' = AnimalUrl(links[k].href)
          /\ pc' = "show_picture"
          /\ UNCHANGED <<variant, cmdline, failed, i, links, k, src, files, emptyFiles,
                         collected, fetched, quits, ret, tds, pureVars>>
       \/ Abort("show_animal")

ShowPicture ==
    /\ pc = "show_picture"
    /\ \/ /\ pc' = "get_pic_url"
          /\ UNCHANGED <<variant, cmdline, failed, i, links, k, url, src, files, emptyFiles,
                         collected, fetched, quits, ret, tds, pureVars>>
       \/ Abort("show_picture")

\* img.get_attribute("src") or "": an image without src gives the empty string
GetPicUrl ==
    /\ pc = "get_pic_url"
    /\ \/ /\ src' \in ImageUrls
          /\ pc' = "save_image"
          /\ UNCHANGED <<variant, cmdline, failed, i, links, k, url, files, emptyFiles,
                         collected, fetched, quits, ret, tds, pureVars>>
       \/ Abort("get_pic_url")

\* the download skips the overlay close until the last link (a dedent slip)
SaveImageCloseOnlyLast ==
    /\ pc = "save_image"
    /\ src # ""
    /\ files' = files \cup {FilePath(links[k].filename)}
    /\ emptyFiles' = emptyFiles \ {FilePath(links[k].filename)}
    /\ IF k < Len(links)
       THEN k' = k + 1 /\ pc' = "show_animal"
       ELSE k' = k /\ pc' = "close_picture"
    /\ UNCHANGED <<variant, cmdline, failed, i, links, url, src,
                   collected, fetched, quits, ret, tds, pureVars>>

\* open(pages/<filename>.jpg, "wb") creates or truncates the file before
\* requests.get runs: a failing open leaves no trace, a failing fetch (an
\* empty URL always fails) leaves the file empty; a response with an error
\* status is no exception, its body is written like any other
SaveImage ==
    /\ pc = "save_image"
    /\ \/ /\ src # ""
          /\ files' = files \cup {FilePath(links[k].filename)}
          /\ emptyFiles' = emptyFiles \ {FilePath(links[k].filename)}
          /\ pc' = "close_picture"
          /\ UNCHANGED <<variant, cmdline, failed, i, links, k, url, src,
                         collected, fetched, quits, ret, tds, pureVars>>
       \/ Abort("save_image")
       \/ /\ pc' = "crashed"
          /\ failed' = "save_image"
          /\ files' = files \cup {FilePath(links[k].filename)}
          /\ emptyFiles' = emptyFiles \cup {FilePath(links[k].filename)}
          /\ UNCHANGED <<variant, cmdline, i, links, k, url, src,
                         collected, fetched, quits, ret, tds, pureVars>>

\* after the overlay is closed: the next link, or the next turn of the page loop
ClosePicture ==
    /\ pc = "close_picture"
    /\ \/ /\ IF k < Len(links)
             THEN /\ k' = k + 1 /\ i' = i /\ pc' = "show_animal"
             ELSE /\ k' = k /\ i' = i + 1 /\ pc' = "list_page"
          /\ UNCHANGED <<variant, cmdline, failed, links, url, src, files, emptyFiles,
                         collected, fetched, quits, ret, tds, pureVars>>
       \/ Abort("close_picture")

\* the loop test failed: browser.quit(), return 0
Quit ==
    /\ pc = "list_page"
    /\ i >= end_page(variant)
    /\ \/ /\ quits' = quits + 1
          /\ ret' = Some(0)
          /\ pc' = "done"
          /\ UNCHANGED <<variant, cmdline, failed, i, links, k, url, src, files, emptyFiles,
                         collected, fetched, tds, pureVars>>
       \/ Abort("quit")

Next ==
    \/ Login
    \/ RunSearch
    \/ StartPage
    \/ ListPage
    \/ ShowAnimal
    \/ ShowPicture
    \/ GetPicUrl
    \/ SaveImage
    \/ ClosePicture
    \/ Quit

Spec == Init /\ [][Next]_vars

----------------------------------------------------------------------------
(* Properties of sanitize *)

\* the members of a set of positions, in ascending order
Ascending(I) ==
    [j \in 1..Cardinality(I) |-> CHOOSE x \in I : Cardinality({y \in I : y < x}) = j - 1]

RECURSIVE KeepFrom(_, _, _)
KeepFrom(s, I, q) ==
    IF q > Len(s) THEN <<>>
    ELSE (IF q \in I THEN <<s[q]>> ELSE <<>>) \o KeepFrom(s, I, q + 1)

\* the characters of s standing at the positions in I, in their order in s
Keep(s, I) == KeepFrom(s, I, 1)

\* the positions at which an occurrence of "Adopted" starts in s
AdoptedAt(s) == {p \in 1..(Len(s) - 6) : \A q \in 1..7 : s[p + q - 1] = Adopted[q]}

NoNewlines(s) == Keep(s, {q \in 1..Len(s) : s[q] # NL})

NoAdopted(s) ==
    Keep(s, {q \in 1..Len(s) : ~ \E p \in AdoptedAt(s) : p <= q /\ q <= p + 6})

OnlyFilenameChars(s) == Keep(s, {q \in 1..Len(s) : s[q] \in FilenameChars})

ExampleCurrent == HoldYear \o <<NL>> \o Adopted

ExampleFilename == <<"B","u","d","d","y","1","2","3","-","H","o","l","d","-","2","4","-">>

\* C2: the filename is the current text without its newlines and without the
\* occurrences of "Adopted", prefixed by the previous cell's text and a hyphen,
\* with every character outside [A-Za-z0-9-] removed; "Buddy123" and
\* "Hold-24-<newline>Adopted" give "Buddy123-Hold-24-".
C2_FilenameDerivation ==
    pc = "sanitized" =>
        /\ clean = OnlyFilenameChars(previous.text \o <<"-">> \o NoAdopted(NoNewlines(html)))
        /\ (previous.text = Buddy123 /\ html = ExampleCurrent => clean = ExampleFilename)

C2_Witness ==
    /\ pc = "sanitized"
    /\ previous.text = Buddy123
    /\ html = ExampleCurrent
    /\ clean = ExampleFilename

\* the three sanitization steps, applied to a string once more
StepsAgain(s) == re_sub(str_replace(str_replace(s, <<NL>>), Adopted))

OnlyAllowed(s) == \A q \in 1..Len(s) : s[q] \in FilenameChars

\* C3 as stated: the output is made of [A-Za-z0-9-] only and the three steps
\* applied to it again leave it unchanged.
C3_Idempotent ==
    pc = "sanitized" => OnlyAllowed(clean) /\ StepsAgain(clean) = clean

\* C3 amended: the output is made of [A-Za-z0-9-] only; removing newlines and
\* filtering characters again never changes it; the three steps applied again
\* leave it unchanged exactly when it holds no occurrence of "Adopted".
C3_IdempotentUnlessAdopted ==
    pc = "sanitized" =>
        /\ OnlyAllowed(clean)
        /\ re_sub(str_replace(clean, <<NL>>)) = clean
        /\ (StepsAgain(clean) = clean <=> AdoptedAt(clean) = {})

C3_Witness ==
    /\ pc = "sanitized"
    /\ \E q \in 1..Len(html) : html[q] \notin FilenameChars
    /\ AdoptedAt(clean) # {}
    /\ StepsAgain(clean) # clean

----------------------------------------------------------------------------
(* Properties of process_table_data *)

BeginsWith(s, w) == Len(w) <= Len(s) /\ \A q \in 1..Len(w) : s[q] = w[q]

Occurs(w, s) ==
    \E p \in 1..(Len(s) + 1) : \A q \in 1..Len(w) : p + q - 1 <= Len(s) /\ s[p + q - 1] = w[q]

\* what the user configured: the flag's value, or the default its usage text states
ConfiguredHold == IF cmdline.hold = None THEN Hold ELSE cmdline.hold[1]

ConfiguredYear ==
    IF cmdline.year # None THEN cmdline.year[1]
    ELSE IF variant = "class" THEN Year24 ELSE Year21

\* what the running copy filters by
KeywordInUse == IF variant = "class" THEN ConfiguredHold ELSE Hold

TokenInUse == IF variant = "class" THEN ConfiguredYear ELSE Year21

FirstAnchorHasHref(td) == td.anchors # <<>> /\ td.anchors[1].hasHref

SomeAnchorHasHref(td) == \E a \in 1..Len(td.anchors) : td.anchors[a].hasHref

CandidateOf(j) ==
    [href |-> tds[j - 1].anchors[1].href, filename |-> sanitize(tds[j].text, tds[j - 1])]

Qualifying(kw, tok) ==
    {j \in 2..Len(tds) : /\ BeginsWith(tds[j].text, kw)
                         /\ Occurs(tok, tds[j].text)
                         /\ FirstAnchorHasHref(tds[j - 1])}

CandidatesFor(kw, tok) ==
    LET I == Qualifying(kw, tok)
    IN  [r \in 1..Cardinality(I) |-> CandidateOf(Ascending(I)[r])]

\* C10: the result is, in ascending cell order, one candidate for each index
\* i >= 1 whose text begins with the hold keyword, holds the year token
\* anywhere and whose preceding cell's first anchor has an href; the lookback
\* cell is always the cell just before.
C10_ExactCandidates ==
    pc = "filtered" => result = CandidatesFor(KeywordInUse, TokenInUse)

C10_Witness ==
    /\ pc = "filtered"
    /\ \E j \in 3..Len(tds) : {j - 1, j} \subseteq Qualifying(KeywordInUse, TokenInUse)
    /\ Len(result) = 2
    /\ result[2].href = ""

\* C1: every candidate of the result was produced for a cell that matches the
\* configured hold pattern, holds the configured year token and follows a cell
\* holding an anchor with an href; no other cell adds a candidate.
C1_OnlyConfiguredMatches ==
    pc = "filtered" =>
        LET Ok == {j \in 2..Len(tds) : /\ BeginsWith(tds[j].text, ConfiguredHold)
                                       /\ Occurs(ConfiguredYear, tds[j].text)
                                       /\ SomeAnchorHasHref(tds[j - 1])}
        IN  /\ Len(result) <= Cardinality(Ok)
            /\ \A r \in 1..Len(result) :
                  \E j \in Ok : FirstAnchorHasHref(tds[j - 1]) /\ result[r] = CandidateOf(j)

\* C4: in both copies a cell matches exactly when its text matches the
\* supplied hold keyword and holds the supplied year token.
C4_FilterFollowsFlags ==
    pc = "filtered" => result = CandidatesFor(ConfiguredHold, ConfiguredYear)

----------------------------------------------------------------------------
(* Properties of the run *)

Numeric(s) == s # <<>> /\ \A q \in 1..Len(s) : s[q] \in Digit

DownloadSteps == {"show_animal", "show_picture", "get_pic_url", "save_image", "close_picture"}

\* the value typed after --start-page, or the documented default 1
RequestedStart ==
    IF cmdline.startPage = None THEN 1 ELSE DecimalValue(cmdline.startPage[1])

\* C5: the first listing page fetched is the value of --start-page when the
\* flag is supplied and 1 when it is omitted (the omission does not stop the run).
C5_FirstPageFetched ==
    (cmdline.startPage = None \/ Numeric(cmdline.startPage[1])) =>
        /\ failed # "start_page"
        /\ (fetched # <<>> => fetched[1] = RequestedStart)

\* C6: after a run without failure pages/ holds one file per candidate
\* collected, named after it: as many distinct files as candidates.
C6_OneFilePerCandidate ==
    pc = "done" =>
        /\ files = {FilePath(collected[c].filename) : c \in 1..Len(collected)}
        /\ emptyFiles = {}
        /\ Cardinality(files) = Len(collected)

C7_AbortState ==
    /\ (failed # "" <=> pc = "crashed")
    /\ (failed # "" => quits = 0 /\ ret = None)
    /\ quits <= 1
    /\ (quits = 1 <=> pc = "done")
    /\ (ret # None <=> pc = "done")
    /\ (pc = "done" => /\ i >= end_page(variant)
                       /\ \A c \in 1..Len(links) : FilePath(links[c].filename) \in files \ emptyFiles)

\* C7: a failing step aborts the run there: nothing runs after it, the browser
\* is not quit and 0 is not returned; the browser is quit once, after the last
\* page's downloads, and only on a run without failure.
C7_FailureAborts == []C7_AbortState /\ [][failed = "" /\ quits = 0]_vars

C7_Witness ==
    /\ pc = "crashed"
    /\ failed = "save_image"
    /\ Len(links) = 2
    /\ k = 1
    /\ i + 1 < end_page(variant)
    /\ FilePath(links[1].filename) \in emptyFiles
    /\ quits = 0

\* what holds at each position of the run
C8_OrderState ==
    /\ \A j \in 1..(Len(fetched) - 1) : fetched[j + 1] = fetched[j] + 1
    /\ (pc \in {"login", "run_search", "start_page"} => fetched = <<>> /\ files = {})
    /\ (pc \in DownloadSteps =>
            /\ k \in 1..Len(links)
            /\ fetched # <<>> /\ fetched[Len(fetched)] = i
            /\ \A c \in 1..(k - 1) : FilePath(links[c].filename) \in files \ emptyFiles)
    /\ (pc \in {"show_picture", "get_pic_url", "save_image", "close_picture"} =>
            url = AnimalUrl(links[k].href))
    /\ (pc = "close_picture" => FilePath(links[k].filename) \in files \ emptyFiles)
    /\ (pc \in {"list_page", "done"} =>
            \A c \in 1..Len(links) : FilePath(links[c].filename) \in files \ emptyFiles)

\* the steps a run may take from each position
C8_OrderStep ==
    \/ pc' = "crashed"
    \/ pc = "login" /\ pc' = "run_search"
    \/ pc = "run_search" /\ pc' = "start_page"
    \/ pc = "start_page" /\ pc' = "list_page" /\ fetched' = <<>>
    \/ /\ pc = "list_page" /\ fetched' = Append(fetched, i) /\ url' = ListUrl(i)
       /\ \/ links' = <<>> /\ pc' = "list_page" /\ i' = i + 1
          \/ links' # <<>> /\ pc' = "show_animal" /\ k' = 1 /\ i' = i
    \/ pc = "list_page" /\ pc' = "done" /\ fetched' = fetched
    \/ /\ pc \in DownloadSteps /\ fetched' = fetched /\ links' = links
       /\ \/ /\ pc = "show_animal" /\ pc' = "show_picture" /\ k' = k /\ i' = i
             /\ url' = AnimalUrl(links[k].href)
          \/ pc = "show_picture" /\ pc' = "get_pic_url" /\ k' = k /\ i' = i
          \/ pc = "get_pic_url" /\ pc' = "save_image" /\ k' = k /\ i' = i
          \/ /\ pc = "save_image" /\ pc' = "close_picture" /\ k' = k /\ i' = i
             /\ files' = files \cup {FilePath(links[k].filename)}
          \/ /\ pc = "close_picture" /\ k < Len(links)
             /\ pc' = "show_animal" /\ k' = k + 1 /\ i' = i
          \/ /\ pc = "close_picture" /\ k = Len(links)
             /\ pc' = "list_page" /\ i' = i + 1

\* C8: login, search, then page by page in ascending order the listing fetch
\* followed by that page's downloads; per candidate, in row order: detail page,
\* photo open, URL read, fetch and write, overlay close; no candidate starts
\* before the previous one is closed and no page is fetched before the previous
\* page's candidates are all written and closed.
C8_StepOrder == []C8_OrderState /\ [][C8_OrderStep]_vars

C8_Witness ==
    /\ pc = "list_page"
    /\ Len(links) = 2
    /\ k = 2
    /\ Len(fetched) >= 2
    /\ i = fetched[Len(fetched)] + 1
    /\ i < end_page(variant)
    /\ {FilePath(links[1].filename), FilePath(links[2].filename)} \subseteq files

\* C9: with --start-page s the pages fetched are s, s+1, ..., bound-1, each
\* once and in this order, whatever the pages hold; none when s >= bound, and
\* the run then still quits the browser and returns 0.
C9_PagesFetched ==
    (cmdline.startPage # None /\ Numeric(cmdline.startPage[1])) =>
        LET first == RequestedStart
            bound == end_page(variant)
            count == IF bound > first THEN bound - first ELSE 0
        IN  /\ Len(fetched) <= count
            /\ \A j \in 1..Len(fetched) : fetched[j] = first + j - 1
            /\ (pc = "done" => Len(fetched) = count /\ quits = 1 /\ ret = Some(0))

====
